---- MODULE Spec2Model ----
(***************************************************************************)
(* PubmedRCTReader (pubmed_rct.py): a dataset reader that turns a          *)
(* line-delimited JSON file into Instances.  The model covers              *)
(*   - from_params / __init__      (construction from a configuration),    *)
(*   - _read                       (a generator: open, per line            *)
(*                                  json.loads, three key lookups, yield), *)
(*   - text_to_instance            (Token / TextField / LabelField).       *)
(* A generator body only runs while the consumer resumes it, so the        *)
(* consumer's moves (resume, stop, close) are actions of their own.        *)
(***************************************************************************)
EXTENDS Integers, Sequences, FiniteSets, TLC

\* ---------------------------------------------------------------- bounds
MaxLines == 3
MaxTokens == 2

\* ------------------------------------------------------- Python values
PyNone == [type |-> "NoneType", val |-> ""]

PyStr(s) == [type |-> "str", val |-> s]

EmptyDict == [k \in {} |-> 0]

SetItem(d, key, v) == [k \in (DOMAIN d) \cup {key} |-> IF k = key THEN v ELSE d[k]]

NoExc == [type |-> "none", key |-> ""]

Raise(t, k) == [type |-> t, key |-> k]

\* truth value of `label` in `if label:` (None and "" are falsy)
Truthy(v) == v.type = "str" /\ v.val # ""

\* ------------------------------------------------- framework value types
Token(t) == [text |-> t]

TextField(tokens, indexers) == [tokens |-> tokens, token_indexers |-> indexers]

LabelField(label) == [label |-> label]

Instance(fields) == [fields |-> fields]

NoInstance == Instance(EmptyDict)

\* [Token(t) for t in xs]
TokenList(xs) == [i \in 1..Len(xs) |-> Token(xs[i])]

\* ------------------------------------------------------- construction
DefaultTokenizer == "WordTokenizer"

DefaultIndexers == {"tokens:SingleIdTokenIndexer"}

\* __init__: falsy arguments are replaced by the defaults
NewReader(tokenizer, token_indexers, lazy) ==
    [_tokenizer |-> IF tokenizer = "" THEN DefaultTokenizer ELSE tokenizer,
     _token_indexers |-> IF token_indexers = {} THEN DefaultIndexers ELSE token_indexers,
     lazy |-> lazy]

NoReader == [_tokenizer |-> "", _token_indexers |-> {}, lazy |-> FALSE]

\* ------------------------------------------------------- text_to_instance
\* variant: tests `label is not None` instead of the truth value of label
text_to_instance_LabelNotNone(self, sent, pos, label) ==
    LET f1 == SetItem(EmptyDict, "sentence", TextField(TokenList(sent), self._token_indexers))
        f2 == SetItem(f1, "pos", TextField(TokenList(pos), self._token_indexers))
        f3 == IF label # PyNone THEN SetItem(f2, "label", LabelField(label)) ELSE f2
    IN  [exc |-> NoExc, inst |-> Instance(f3)]

\* variant: the pos field is built from sent_tokens
text_to_instance_PosFromSent(self, sent, pos, label) ==
    LET f1 == SetItem(EmptyDict, "sentence", TextField(TokenList(sent), self._token_indexers))
        f2 == SetItem(f1, "pos", TextField(TokenList(sent), self._token_indexers))
        f3 == IF Truthy(label) THEN SetItem(f2, "label", LabelField(label)) ELSE f2
    IN  [exc |-> NoExc, inst |-> Instance(f3)]

\* variant: rejects lists of different lengths and empty sentences
text_to_instance_Validates(self, sent, pos, label) ==
    LET f1 == SetItem(EmptyDict, "sentence", TextField(TokenList(sent), self._token_indexers))
        f2 == SetItem(f1, "pos", TextField(TokenList(pos), self._token_indexers))
        f3 == IF Truthy(label) THEN SetItem(f2, "label", LabelField(label)) ELSE f2
    IN  IF Len(sent) # Len(pos) \/ Len(sent) = 0
        THEN [exc |-> Raise("ValueError", ""), inst |-> Instance(EmptyDict)]
        ELSE [exc |-> NoExc, inst |-> Instance(f3)]

text_to_instance(self, sent, pos, label) ==
    LET sent_tokens == TokenList(sent)
        pos_tokens == TokenList(pos)
        f1 == SetItem(EmptyDict, "sentence", TextField(sent_tokens, self._token_indexers))
        f2 == SetItem(f1, "pos", TextField(pos_tokens, self._token_indexers))
        f3 == IF Truthy(label) THEN SetItem(f2, "label", LabelField(label)) ELSE f2
    IN  [exc |-> NoExc, inst |-> Instance(f3)]

\* ------------------------------------------------------- input files
\* A line of the file, by what json.loads makes of it:
\*   blank   "\n"            garbage  "{not json"
\*   array   "[1, 2]"        object   a JSON object with the keys of obj
SampleRecord(l, s) ==
    [label |-> l, sentence |-> s, pos |-> <<"PRP", "VBD">>, sentence_text |-> "We used"]

AllKeys == {"label", "sentence", "pos", "sentence_text"}

MissingSets == {{}, {"label"}, {"sentence"}, {"pos"}, {"sentence", "pos"},
                {"label", "sentence", "pos"}}

LineLabels == {PyNone, PyStr(""), PyStr("METHODS")}

ObjectLine(l, s, M) ==
    [kind |-> "object", obj |-> [k \in AllKeys \ M |-> SampleRecord(l, s)[k]]]

\* the sample lines: three that are no JSON object, one per label value, one per
\* set of missing keys, and one whose sentence list is empty
Lines ==
    {[kind |-> k, obj |-> EmptyDict] : k \in {"blank", "garbage", "array"}}
    \cup {ObjectLine(l, <<"we", "used">>, {}) : l \in LineLabels}
    \cup {ObjectLine(PyStr("METHODS"), <<"we", "used">>, M) : M \in MissingSets}
    \cup {ObjectLine(PyStr("RESULTS"), <<>>, {})}

RECURSIVE SeqsUpTo(_, _)
SeqsUpTo(S, n) ==
    IF n = 0 THEN {<<>>}
    ELSE LET shorter == SeqsUpTo(S, n - 1)
         IN  shorter \cup {Append(s, x) : s \in {t \in shorter : Len(t) = n - 1}, x \in S}

Files == SeqsUpTo(Lines, MaxLines)

\* ------------------------------------------------------- from_params
ConfigKeys == {"tokenizer", "token_indexers", "lazy", "foo"}

SampleConfig ==
    [tokenizer |-> "CharacterTokenizer",
     token_indexers |-> "token_characters:TokenCharactersIndexer",
     lazy |-> "true",
     foo |-> "1"]

Configs == {[k \in K |-> SampleConfig[k]] : K \in SUBSET ConfigKeys}

\* params.pop(key, {}): the value ("{}" when the key is absent) and what is left
Pop(params, key) ==
    [value |-> IF key \in DOMAIN params THEN params[key] ELSE "{}",
     rest |-> [k \in (DOMAIN params) \ {key} |-> params[k]]]

\* Tokenizer.from_params: an empty configuration gives the default tokenizer
TokenizerFromParams(p) == IF p = "{}" THEN DefaultTokenizer ELSE p

\* TokenIndexer.dict_from_params: one indexer per entry, none for {}
DictFromParams(p) == IF p = "{}" THEN {} ELSE {p}

\* variant: leftover keys are ignored
AssertEmpty_Ignores(params) == NoExc

\* params.assert_empty(cls.__name__)
AssertEmpty(params) ==
    IF DOMAIN params # {} THEN Raise("ConfigurationError", "") ELSE NoExc

from_params(params) ==
    LET p1 == Pop(params, "tokenizer")
        tokenizer == TokenizerFromParams(p1.value)
        p2 == Pop(p1.rest, "token_indexers")
        token_indexers == DictFromParams(p2.value)
        e == AssertEmpty(p2.rest)
    IN  [exc |-> e,
         params |-> p2.rest,
         reader |-> IF e = NoExc THEN NewReader(tokenizer, token_indexers, FALSE)
                    ELSE NoReader]

\* ------------------------------------------------------- _read, one line
\* json.loads(line)
json_loads(line) ==
    IF line.kind \in {"blank", "garbage"}
    THEN [exc |-> Raise("JSONDecodeError", ""), val |-> [kind |-> "none", obj |-> EmptyDict]]
    ELSE [exc |-> NoExc, val |-> [kind |-> IF line.kind = "array" THEN "list" ELSE "dict",
                                  obj |-> line.obj]]

\* example[key]: the exception raised, if any
GetItemExc(example, key) ==
    IF example.kind # "dict" THEN Raise("TypeError", "")
    ELSE IF key \notin DOMAIN example.obj THEN Raise("KeyError", key)
    ELSE NoExc

Failed(e) == [exc |-> e, inst |-> NoInstance]

\* variant: label read with example.get("label"), so a missing label is None
LoopBody_LabelOptional(self, line) ==
    LET p == json_loads(line)
        example == p.val
    IN  IF p.exc # NoExc THEN Failed(p.exc)
        ELSE IF example.kind # "dict" THEN Failed(Raise("TypeError", ""))
        ELSE IF GetItemExc(example, "sentence") # NoExc THEN Failed(GetItemExc(example, "sentence"))
        ELSE IF GetItemExc(example, "pos") # NoExc THEN Failed(GetItemExc(example, "pos"))
        ELSE text_to_instance(self, example.obj["sentence"], example.obj["pos"],
                              IF "label" \in DOMAIN example.obj THEN example.obj["label"]
                              ELSE PyNone)

\* variant: the three lookups in the order pos, sentence, label
LoopBody_PosFirst(self, line) ==
    LET p == json_loads(line)
        example == p.val
    IN  IF p.exc # NoExc THEN Failed(p.exc)
        ELSE IF GetItemExc(example, "pos") # NoExc THEN Failed(GetItemExc(example, "pos"))
        ELSE IF GetItemExc(example, "sentence") # NoExc THEN Failed(GetItemExc(example, "sentence"))
        ELSE IF GetItemExc(example, "label") # NoExc THEN Failed(GetItemExc(example, "label"))
        ELSE text_to_instance(self, example.obj["sentence"], example.obj["pos"],
                              example.obj["label"])

\* the body of `for line in file` (lines 45-49): an exception or the Instance to yield
LoopBody(self, line) ==
    LET p == json_loads(line)
        example == p.val
    IN  IF p.exc # NoExc THEN Failed(p.exc)
        ELSE IF GetItemExc(example, "label") # NoExc THEN Failed(GetItemExc(example, "label"))
        ELSE IF GetItemExc(example, "sentence") # NoExc THEN Failed(GetItemExc(example, "sentence"))
        ELSE IF GetItemExc(example, "pos") # NoExc THEN Failed(GetItemExc(example, "pos"))
        ELSE text_to_instance(self, example.obj["sentence"], example.obj["pos"],
                              example.obj["label"])

\* leaving the `with open(...)` block, by any route, closes the file
WithExit(h) == "closed"

\* ------------------------------------------------------- state
VARIABLES
    config,     \* the configuration handed to from_params
    params,     \* the Params object (pop removes keys from it)
    built,      \* "pending" | "ok" | "failed"
    reader,     \* the constructed PubmedRCTReader
    ctorExc,    \* what from_params raised
    fs,         \* the file behind file_path: does it exist, its lines
    pc,         \* generator: "none" | "created" | "suspended" | "exhausted" | "raised" | "closed"
    idx,        \* lines taken from the file iterator
    handle,     \* "none" | "open" | "closed"
    opens,      \* successful open() calls
    out,        \* the Instances yielded so far
    exc,        \* what the generator raised into the consumer
    consumer,   \* "consuming" | "stopped"
    call        \* a direct call of text_to_instance and its result

vars == <<config, params, built, reader, ctorExc, fs, pc, idx, handle, opens, out, exc,
          consumer, call>>

genVars == <<fs, pc, idx, handle, opens, out, exc, consumer>>

ctorVars == <<config, params, built, reader, ctorExc>>

NoFile == [exists |-> FALSE, lines |-> <<>>]

FileSystems == {NoFile} \cup {[exists |-> TRUE, lines |-> f] : f \in Files}

NoCall ==
    [made |-> FALSE, sent |-> <<>>, pos |-> <<>>, label |-> PyNone,
     result |-> Failed(NoExc)]

Words == {"we", "used"}

Tags == {"PRP", "VBD"}

Labels == {PyNone, PyStr(""), PyStr("METHODS"), PyStr("BACKGROUND")}

Init ==
    /\ config \in Configs
    /\ params = config
    /\ built = "pending"
    /\ reader = NoReader
    /\ ctorExc = NoExc
    /\ fs = NoFile
    /\ pc = "none"
    /\ idx = 0
    /\ handle = "none"
    /\ opens = 0
    /\ out = <<>>
    /\ exc = NoExc
    /\ consumer = "consuming"
    /\ call = NoCall

\* PubmedRCTReader.from_params(params)
FromParams ==
    /\ built = "pending"
    /\ LET r == from_params(params)
       IN  /\ params' = r.params
           /\ ctorExc' = r.exc
           /\ reader' = r.reader
           /\ built' = IF r.exc = NoExc THEN "ok" ELSE "failed"
    /\ UNCHANGED <<config, genVars, call>>

\* reader.text_to_instance(sent, pos, label) called directly; label defaults to None
CallTextToInstance ==
    /\ built = "ok" /\ pc = "none" /\ ~call.made
    /\ \E sent \in SeqsUpTo(Words, MaxTokens), pos \in SeqsUpTo(Tags, MaxTokens),
          label \in Labels :
          call' = [made |-> TRUE, sent |-> sent, pos |-> pos, label |-> label,
                   result |-> text_to_instance(reader, sent, pos, label)]
    /\ UNCHANGED <<ctorVars, genVars>>

\* reader._read(file_path): creates the generator, runs none of its body
StartRead ==
    /\ built = "ok" /\ pc = "none" /\ ~call.made
    /\ fs' \in FileSystems
    /\ pc' = "created"
    /\ UNCHANGED <<ctorVars, idx, handle, opens, out, exc, consumer, call>>

Resumable == pc \in {"created", "suspended"} /\ consumer = "consuming"

\* next(gen) when open() fails: the exception leaves the generator
GenOpenFail ==
    /\ Resumable /\ pc = "created" /\ ~fs.exists
    /\ pc' = "raised"
    /\ exc' = Raise("FileNotFoundError", "")
    /\ UNCHANGED <<ctorVars, fs, idx, handle, opens, out, consumer, call>>

\* the first next(gen) runs lines 42-43 before the loop
Opened == pc = "created" => fs.exists

OpensAfter == IF pc = "created" THEN opens + 1 ELSE opens

\* variant: the new Instance is put in front of the earlier ones
GenYield_Prepends ==
    /\ Resumable /\ Opened /\ idx < Len(fs.lines)
    /\ LET r == LoopBody(reader, fs.lines[idx + 1])
       IN  /\ r.exc = NoExc
           /\ out' = <<r.inst>> \o out
    /\ idx' = idx + 1
    /\ pc' = "suspended"
    /\ handle' = "open"
    /\ opens' = OpensAfter
    /\ UNCHANGED <<ctorVars, fs, exc, consumer, call>>

\* next(gen): one more line, converted and yielded
GenYield ==
    /\ Resumable /\ Opened /\ idx < Len(fs.lines)
    /\ LET r == LoopBody(reader, fs.lines[idx + 1])
       IN  /\ r.exc = NoExc
           /\ out' = Append(out, r.inst)
    /\ idx' = idx + 1
    /\ pc' = "suspended"
    /\ handle' = "open"
    /\ opens' = OpensAfter
    /\ UNCHANGED <<ctorVars, fs, exc, consumer, call>>

\* variant: a line that raises is skipped (try/except: continue)
GenRaise_SkipsBadLine ==
    /\ Resumable /\ Opened /\ idx < Len(fs.lines)
    /\ LoopBody(reader, fs.lines[idx + 1]).exc # NoExc
    /\ idx' = idx + 1
    /\ pc' = "suspended"
    /\ handle' = "open"
    /\ opens' = OpensAfter
    /\ UNCHANGED <<ctorVars, fs, out, exc, consumer, call>>

\* variant: a blank line is skipped (`if not line.strip(): continue`)
GenRaise_SkipsBlank ==
    /\ Resumable /\ Opened /\ idx < Len(fs.lines)
    /\ LET r == LoopBody(reader, fs.lines[idx + 1])
       IN  /\ r.exc # NoExc
           /\ IF fs.lines[idx + 1].kind = "blank"
              THEN /\ pc' = "suspended" /\ handle' = "open" /\ exc' = exc
              ELSE /\ pc' = "raised" /\ handle' = WithExit(handle) /\ exc' = r.exc
    /\ idx' = idx + 1
    /\ opens' = OpensAfter
    /\ UNCHANGED <<ctorVars, fs, out, consumer, call>>

\* next(gen): the line raises; the with block closes the file on the way out
GenRaise ==
    /\ Resumable /\ Opened /\ idx < Len(fs.lines)
    /\ LET r == LoopBody(reader, fs.lines[idx + 1])
       IN  /\ r.exc # NoExc
           /\ exc' = r.exc
    /\ idx' = idx + 1
    /\ pc' = "raised"
    /\ handle' = WithExit(handle)
    /\ opens' = OpensAfter
    /\ UNCHANGED <<ctorVars, fs, out, consumer, call>>

\* next(gen): no line left; the with block ends and StopIteration follows
GenExhaust ==
    /\ Resumable /\ Opened /\ idx = Len(fs.lines)
    /\ pc' = "exhausted"
    /\ handle' = WithExit(handle)
    /\ opens' = OpensAfter
    /\ UNCHANGED <<ctorVars, fs, idx, out, exc, consumer, call>>

\* the consumer stops asking for Instances and keeps the generator
ConsumerStop ==
    /\ Resumable
    /\ consumer' = "stopped"
    /\ UNCHANGED <<ctorVars, fs, pc, idx, handle, opens, out, exc, call>>

\* gen.close(), or the generator is finalized: GeneratorExit at the yield
GenClose ==
    /\ pc \in {"created", "suspended"}
    /\ pc' = "closed"
    /\ handle' = IF pc = "suspended" THEN WithExit(handle) ELSE handle
    /\ consumer' = "stopped"
    /\ UNCHANGED <<ctorVars, fs, idx, opens, out, exc, call>>

Next ==
    \/ FromParams
    \/ CallTextToInstance
    \/ StartRead
    \/ GenOpenFail
    \/ GenYield
    \/ GenRaise
    \/ GenExhaust
    \/ ConsumerStop
    \/ GenClose

Spec == Init /\ [][Next]_vars

TypeOK ==
    /\ built \in {"pending", "ok", "failed"}
    /\ pc \in {"none", "created", "suspended", "exhausted", "raised", "closed"}
    /\ handle \in {"none", "open", "closed"}
    /\ consumer \in {"consuming", "stopped"}
    /\ idx \in 0..Len(fs.lines)
    /\ opens \in 0..1

\* ------------------------------------------------------- properties
lines == fs.lines

RequiredKeys == {"label", "sentence", "pos"}

\* a line as the file format describes it: a JSON object with the three keys
WellFormed(line) == line.kind = "object" /\ RequiredKeys \subseteq DOMAIN line.obj

MissingKeys(line) == RequiredKeys \ DOMAIN line.obj

\* the Instance a well-formed line converts to
Converted(line) ==
    text_to_instance(reader, line.obj["sentence"], line.obj["pos"], line.obj["label"]).inst

HasField(inst, name) == name \in DOMAIN inst.fields

\* the strings held by a text field, in order
Texts(field) == [i \in 1..Len(field.tokens) |-> field.tokens[i].text]

\* C1: a read that runs to the end of a file of N well-formed lines has yielded
\* exactly N Instances, the i-th being the conversion of the i-th line.
C1_AllLinesInOrder ==
    (pc = "exhausted" /\ \A i \in 1..Len(lines) : WellFormed(lines[i]))
        => /\ Len(out) = Len(lines)
           /\ \A i \in 1..Len(lines) : out[i] = Converted(lines[i])

C1_Witness ==
    /\ pc = "exhausted"
    /\ Len(lines) = 3
    /\ \A i \in 1..3 : WellFormed(lines[i])
    /\ lines[1] # lines[2] /\ lines[2] # lines[3] /\ lines[1] # lines[3]
    /\ Len(out) = 3

\* the label rule for one (label, Instance) pair
LabelRule(l, inst) ==
    IF l.type = "str" /\ l.val # ""
    THEN HasField(inst, "label") /\ inst.fields["label"].label.val = l.val
    ELSE ~HasField(inst, "label")

\* C2: an Instance has a label field exactly when the label it was made from is a
\* non-empty string, and then the field holds that string; an empty or absent
\* (None) label gives no label field.  Holds for every Instance yielded by a read
\* and for a direct call of text_to_instance.
C2_LabelFieldIffNonEmpty ==
    /\ \A i \in 1..Len(out) :
          /\ "label" \in DOMAIN lines[i].obj
          /\ LabelRule(lines[i].obj["label"], out[i])
    /\ call.made => LabelRule(call.label, call.result.inst)

C2_Witness ==
    /\ Len(out) = 3
    /\ lines[1].obj["label"] = PyStr("") /\ ~HasField(out[1], "label")
    /\ lines[2].obj["label"] = PyNone /\ ~HasField(out[2], "label")
    /\ lines[3].obj["label"] = PyStr("METHODS") /\ HasField(out[3], "label")

\* C3: the sentence field holds exactly the strings of the sentence list, in order,
\* and the pos field exactly those of the pos list, for a direct call and for
\* every Instance a read yields.
C3_TokensPreserved ==
    /\ call.made =>
          /\ Texts(call.result.inst.fields["sentence"]) = call.sent
          /\ Texts(call.result.inst.fields["pos"]) = call.pos
    /\ \A i \in 1..Len(out) :
          /\ Texts(out[i].fields["sentence"]) = lines[i].obj["sentence"]
          /\ Texts(out[i].fields["pos"]) = lines[i].obj["pos"]

C3_Witness ==
    /\ call.made
    /\ call.sent = <<"used", "we">>
    /\ call.pos = <<"VBD", "PRP">>
    /\ Texts(call.result.inst.fields["sentence"]) = <<"used", "we">>

\* C4: once the read has reached a line that is not valid JSON, it has raised a
\* parse failure at that very line, and only the lines before it were converted.
C4_InvalidJsonStopsRead ==
    \A i \in 1..idx :
        lines[i].kind = "garbage"
            => /\ pc = "raised"
               /\ exc.type = "JSONDecodeError"
               /\ idx = i
               /\ Len(out) = i - 1

C4_Witness ==
    /\ pc = "raised" /\ exc.type = "JSONDecodeError"
    /\ Len(lines) = 3 /\ idx = 2
    /\ lines[2].kind = "garbage"
    /\ WellFormed(lines[1]) /\ WellFormed(lines[3])
    /\ Len(out) = 1

\* C5: once the read has reached a JSON object that lacks label, sentence or pos,
\* it has raised a KeyError naming a key the object lacks, at that very line, and
\* no Instance was produced for it.
C5_MissingKeyRaises ==
    \A i \in 1..idx :
        (lines[i].kind = "object" /\ MissingKeys(lines[i]) # {})
            => /\ pc = "raised"
               /\ exc.type = "KeyError"
               /\ exc.key \in MissingKeys(lines[i])
               /\ idx = i
               /\ Len(out) = i - 1

C5_Witness ==
    /\ pc = "raised" /\ exc = Raise("KeyError", "pos")
    /\ idx = 2 /\ Len(out) = 1
    /\ MissingKeys(lines[2]) = {"pos"}

\* the read is over: the generator finished, raised or was closed, or the consumer
\* stopped taking Instances
ReadEnded == pc \in {"exhausted", "raised", "closed"} \/ consumer = "stopped"

\* C6: after the read has ended, in whatever way, the file handle is not open.
C6_HandleReleasedWhenEnded == ReadEnded => handle # "open"

\* C7: a configuration with a key other than tokenizer and token_indexers makes
\* from_params raise a ConfigurationError, with no file opened or read before or
\* after; a configuration with only those keys yields a reader.
C7_UnknownKeyFailsConstruction ==
    /\ built = "pending" => (pc = "none" /\ handle = "none" /\ opens = 0)
    /\ built # "pending" =>
          IF DOMAIN config \subseteq {"tokenizer", "token_indexers"}
          THEN built = "ok" /\ ctorExc = NoExc /\ reader # NoReader
          ELSE /\ built = "failed" /\ ctorExc.type = "ConfigurationError"
               /\ reader = NoReader
               /\ pc = "none" /\ handle = "none" /\ opens = 0 /\ idx = 0 /\ out = <<>>

C7_Witness ==
    /\ built = "failed"
    /\ DOMAIN config = {"tokenizer", "foo"}
    /\ ctorExc.type = "ConfigurationError"

\* C8 as stated: a blank line raises no error.
C8_BlankLineRaisesNothing ==
    ~(pc = "raised" /\ idx >= 1 /\ lines[idx].kind = "blank")

\* C8 amended: every line is parsed, a blank one too; a blank line raises a parse
\* failure that ends the read, no Instance is produced for it, and the Instances
\* yielded are those of the lines before it, in file order.
C8_BlankLineIsParsedAndFails ==
    \A i \in 1..idx :
        lines[i].kind = "blank"
            => /\ pc = "raised"
               /\ exc.type = "JSONDecodeError"
               /\ idx = i
               /\ Len(out) = i - 1
               /\ \A j \in 1..(i - 1) : out[j] = Converted(lines[j])

C8_Witness ==
    /\ pc = "raised" /\ exc.type = "JSONDecodeError"
    /\ Len(lines) = 3 /\ idx = 2
    /\ lines[2].kind = "blank"
    /\ WellFormed(lines[1]) /\ WellFormed(lines[3])
    /\ out = <<Converted(lines[1])>>

\* C9: text_to_instance validates nothing: whatever the two lists, of equal length
\* or not, empty or not, it returns an Instance with a sentence and a pos field and
\* raises nothing; an empty sentence list gives a sentence field with no token.
C9_NoValidation ==
    /\ call.made =>
          /\ call.result.exc = NoExc
          /\ HasField(call.result.inst, "sentence")
          /\ HasField(call.result.inst, "pos")
          /\ call.sent = <<>> => call.result.inst.fields["sentence"].tokens = <<>>
    /\ \A i \in 1..idx :
          (WellFormed(lines[i]) /\ lines[i].obj["sentence"] = <<>>)
              => /\ Len(out) >= i
                 /\ out[i].fields["sentence"].tokens = <<>>
                 /\ Len(out[i].fields["pos"].tokens) = Len(lines[i].obj["pos"])

C9_Witness ==
    /\ call.made
    /\ call.sent = <<>>
    /\ Len(call.pos) = 2
    /\ call.result.exc = NoExc

\* the failure a line that is not well-formed stands for
FailureOf(line) ==
    CASE line.kind \in {"blank", "garbage"} -> Raise("JSONDecodeError", "")
      [] line.kind = "array" -> Raise("TypeError", "")
      [] "label" \in MissingKeys(line) -> Raise("KeyError", "label")
      [] "sentence" \in MissingKeys(line) -> Raise("KeyError", "sentence")
      [] OTHER -> Raise("KeyError", "pos")

FirstOffending ==
    CHOOSE k \in 1..Len(lines) :
        ~WellFormed(lines[k]) /\ \A j \in 1..(k - 1) : WellFormed(lines[j])

\* C10: when a read of an opened file fails, the failure is that of the first line
\* in file order that is not well-formed, and the Instances yielded before it are
\* the conversions of the lines preceding that line, in order.
C10_FirstOffendingLineDecides ==
    (pc = "raised" /\ handle # "none")
        => /\ \E k \in 1..Len(lines) : ~WellFormed(lines[k])
           /\ idx = FirstOffending
           /\ exc = FailureOf(lines[FirstOffending])
           /\ Len(out) = FirstOffending - 1
           /\ \A j \in 1..(FirstOffending - 1) : out[j] = Converted(lines[j])

C10_Witness ==
    /\ pc = "raised" /\ handle = "closed"
    /\ Len(lines) = 3 /\ idx = 2
    /\ MissingKeys(lines[2]) = {"sentence", "pos"} /\ exc = Raise("KeyError", "sentence")
    /\ lines[3].kind = "garbage"
    /\ out = <<Converted(lines[1])>>

====
